---------------------------- MODULE Spec2Model ----------------------------
(***************************************************************************)
(* A model of Calc (src/calc.cpp): a recursive-descent parser/evaluator    *)
(* for arithmetic expressions.  The parser is modelled as a state machine  *)
(* with an explicit call stack: one frame per active C++ function, one     *)
(* step per block of code between two calls or two cursor movements.       *)
(***************************************************************************)
EXTENDS Integers, Sequences, FiniteSets, TLC

(***************************************************************************)
(* Characters.  A source string is a sequence of one-character strings.    *)
(***************************************************************************)

\* '\0', which PeekChar returns at the end of m_src
NUL == "NUL"

DigitChars == <<"0", "1", "2", "3", "4", "5", "6", "7", "8", "9">>

isdigit(c) == \E i \in 1..10 : DigitChars[i] = c

DigitVal(c) == (CHOOSE i \in 1..10 : DigitChars[i] = c) - 1

isalpha(c) ==
    c \in {"a", "b", "c", "d", "e", "f", "g", "h", "i", "j", "k", "l", "m",
           "n", "o", "p", "q", "r", "s", "t", "u", "v", "w", "x", "y", "z",
           "A", "B", "C", "D", "E", "F", "G", "H", "I", "J", "K", "L", "M",
           "N", "O", "P", "Q", "R", "S", "T", "U", "V", "W", "X", "Y", "Z"}

isalnum(c) == isalpha(c) \/ isdigit(c)

\* '\v', which has no escape in a TLA+ string
VT == "VT"

\* isblank in place of isspace.
isspace_Blank(c) == c \in {" ", "\t"}

\* space, \t, \n, \v, \f, \r in the "C" locale
isspace(c) == c \in {" ", "\t", "\n", VT, "\f", "\r"}

IsFirstCharOfDouble(c) == isdigit(c) \/ (c = "-") \/ (c = "+") \/ (c = ".")

PeekChar(src, pos) == IF pos >= Len(src) THEN NUL ELSE src[pos + 1]

\* A GetChar that does not move.
GetCharPos_Stuck(src, pos) == pos

\* The position after GetChar: it moves only when PeekChar is not '\0'.
GetCharPos(src, pos) == IF PeekChar(src, pos) # NUL THEN pos + 1 ELSE pos

(***************************************************************************)
(* Doubles.  A double that a literal denotes is kept as sign, decimal      *)
(* mantissa and decimal exponent, in a canonical form (so that "1", "1.0", *)
(* "+1" and "10e-1" are one value).  Arithmetic on small integers is       *)
(* carried out (it is exact in IEEE doubles); any other result is kept as  *)
(* the term of the operation that produced it.                             *)
(***************************************************************************)

\* Integers up to IntLimit in magnitude are computed with, exactly.
IntLimit == 10000

RECURSIVE Pow10(_)
Pow10(n) == IF n <= 0 THEN 1 ELSE 10 * Pow10(n - 1)

RECURSIVE NumDigits(_)
NumDigits(m) == IF m < 10 THEN 1 ELSE 1 + NumDigits(m \div 10)

RECURSIVE TrailingZeros(_)
TrailingZeros(m) ==
    IF m = 0 \/ m % 10 # 0 THEN 0 ELSE 1 + TrailingZeros(m \div 10)

\* The double  (neg ? -1 : 1) * m * 10^x,  in canonical form.
Num(neg, m, x) ==
    IF m = 0 THEN [k |-> "num", neg |-> neg, m |-> 0, x |-> 0]
    ELSE LET z  == TrailingZeros(m)
             m0 == m \div Pow10(z)
             x0 == x + z
         IN  IF x0 >= 0 /\ x0 <= 4 /\ m0 <= IntLimit \div Pow10(x0)
             THEN [k |-> "num", neg |-> neg, m |-> m0 * Pow10(x0), x |-> 0]
             ELSE [k |-> "num", neg |-> neg, m |-> m0, x |-> x0]

IntVal(n) == IF n < 0 THEN Num(TRUE, 0 - n, 0) ELSE Num(FALSE, n, 0)

IsSmallInt(v) == v.k = "num" /\ v.x = 0 /\ v.m <= IntLimit

Signed(v) == IF v.neg THEN 0 - v.m ELSE v.m

Negate(v) == [v EXCEPT !.neg = ~v.neg]

\* left + right
Plus(l, r) ==
    IF IsSmallInt(l) /\ IsSmallInt(r)
    THEN LET n == Signed(l) + Signed(r)
         IN  IF n # 0 THEN IntVal(n)
             ELSE Num(l.m = 0 /\ r.m = 0 /\ l.neg /\ r.neg, 0, 0)
    ELSE [k |-> "bin", op |-> "+", l |-> l, r |-> r]

\* left - right
Minus(l, r) ==
    IF IsSmallInt(l) /\ IsSmallInt(r)
    THEN Plus(l, Negate(r))
    ELSE [k |-> "bin", op |-> "-", l |-> l, r |-> r]

\* left * right
Times(l, r) ==
    IF IsSmallInt(l) /\ IsSmallInt(r)
    THEN Num(l.neg # r.neg, l.m * r.m, 0)
    ELSE [k |-> "bin", op |-> "*", l |-> l, r |-> r]

\* left / right
Divide(l, r) ==
    IF IsSmallInt(l) /\ IsSmallInt(r) /\ r.m # 0 /\ l.m % r.m = 0
    THEN Num(l.neg # r.neg, l.m \div r.m, 0)
    ELSE [k |-> "bin", op |-> "/", l |-> l, r |-> r]

\* A <math.h> function applied to a double.  sqrt of a perfect square,
\* sin(0) and cos(0) are exact; any other result is kept as a term.
Call(f, arg) ==
    IF f = "sqrt" /\ IsSmallInt(arg) /\ ~arg.neg
          /\ \E r \in 0..100 : r * r = arg.m
    THEN IntVal(CHOOSE r \in 0..100 : r * r = arg.m)
    ELSE IF f = "sin" /\ IsSmallInt(arg) /\ arg.m = 0 THEN arg
    ELSE IF f = "cos" /\ IsSmallInt(arg) /\ arg.m = 0 THEN IntVal(1)
    ELSE [k |-> "call", f |-> f, arg |-> arg]

(***************************************************************************)
(* std::stod on the text GetConstant gathered, which has the form          *)
(*   [sign] digit* ['.' digit*] [('e'|'E') [sign] digit+]                  *)
(* so that strtod converts all of it or nothing.                           *)
(***************************************************************************)

IndexOf(s, cs) ==
    IF \E i \in 1..Len(s) : s[i] \in cs
    THEN CHOOSE i \in 1..Len(s) : s[i] \in cs /\ \A j \in 1..(i - 1) : s[j] \notin cs
    ELSE 0

\* The number that the digits s[from..to] write.
RECURSIVE DigitsValue(_, _, _)
DigitsValue(s, from, to) ==
    IF to < from THEN 0
    ELSE 10 * DigitsValue(s, from, to - 1) + DigitVal(s[to])

DigitsToInt(ds) == DigitsValue(ds, 1, Len(ds))

HasSign(s, i) == i <= Len(s) /\ s[i] \in {"+", "-"}

\* The j-th digit of the mantissa of s: its digits begin at first, and id is
\* the index of its '.' (0: it has none).
MantissaDigit(s, first, id, j) ==
    s[IF id # 0 /\ first + j - 1 >= id THEN first + j ELSE first + j - 1]

\* The number of zeros in a row among the mantissa's nd digits, from the j-th
\* on in the direction of step.
RECURSIVE ZerosRun(_, _, _, _, _, _)
ZerosRun(s, first, id, j, step, nd) ==
    IF j < 1 \/ j > nd \/ MantissaDigit(s, first, id, j) # "0" THEN 0
    ELSE 1 + ZerosRun(s, first, id, j + step, step, nd)

\* The number that the mantissa's digits from..to write.
RECURSIVE MantissaValue(_, _, _, _, _)
MantissaValue(s, first, id, from, to) ==
    IF to < from THEN 0
    ELSE 10 * MantissaValue(s, first, id, from, to - 1)
         + DigitVal(MantissaDigit(s, first, id, to))

\* The number the exponent's digits s[from..] write, or 1000000 if that is
\* less.
ExponentValue(s, from) ==
    LET sig == CHOOSE i \in from..(Len(s) + 1) :
                   /\ i > Len(s) \/ s[i] # "0"
                   /\ \A j \in from..(i - 1) : s[j] = "0"
    IN  IF Len(s) - sig + 1 > 6 THEN 1000000 ELSE DigitsValue(s, sig, Len(s))

\* The first d digits (d <= 9) of a 9-digit decimal expansion.
Lead(digits9, d) == digits9 \div Pow10(9 - d)

\* Whether a number is a double that strtod reports with ERANGE: above
\* DBL_MAX = 1.79769313...e308, or below DBL_MIN = 2.22507385...e-308 (a
\* subnormal or zero result).  lead is the number's first d significant
\* digits (d <= 9) and order the decimal order of the first of them.
OutOfDoubleRange(lead, d, order) ==
    \/ order > 308
    \/ order = 308 /\ lead > Lead(179769313, d)
    \/ order < 0 - 308
    \/ order = 0 - 308 /\ lead <= Lead(222507385, d)

\* A double of more than 9 significant decimal digits.
BigNum(neg, digits, x) == [k |-> "big", neg |-> neg, digits |-> digits, x |-> x]

\* What strtod makes of a mantissa of nd digits that begin at first, with its
\* '.' at id, lz leading and tz trailing zeros, and the decimal exponent x of
\* its last digit that is not zero.
Significant(s, neg, first, id, nd, lz, tz, x) ==
    LET n == nd - lz - tz
        d == IF n > 9 THEN 9 ELSE n
    IN  IF lz = nd THEN [k |-> "value", v |-> Num(neg, 0, 0)]
        ELSE CHOOSE r \in
               { IF OutOfDoubleRange(lead, d, n - 1 + x) THEN [k |-> "out_of_range"]
                 ELSE IF n <= 9 THEN [k |-> "value", v |-> Num(neg, lead, x)]
                 ELSE [k |-> "value",
                       v |-> BigNum(neg,
                                    [j \in 1..n |-> MantissaDigit(s, first, id, lz + j)],
                                    x)] :
                   lead \in {MantissaValue(s, first, id, lz + 1, lz + d)} } : TRUE

\* What strtod makes of the text s, with its mantissa's digits beginning at
\* first, its '.' at id and its 'e' at ie (0: it has none).
Convert(s, neg, first, id, ie) ==
    LET last     == IF ie = 0 THEN Len(s) ELSE ie - 1
        fracLen  == IF id = 0 THEN 0 ELSE last - id
        nd       == IF id = 0 THEN last - first + 1 ELSE last - first
        expFirst == IF HasSign(s, ie + 1) THEN ie + 2 ELSE ie + 1
        e        == IF ie = 0 THEN 0
                    ELSE IF HasSign(s, ie + 1) /\ s[ie + 1] = "-"
                    THEN 0 - ExponentValue(s, expFirst)
                    ELSE ExponentValue(s, expFirst)
    IN  IF nd = 0 THEN [k |-> "invalid_argument"]
        ELSE CHOOSE r \in
               { Significant(s, neg, first, id, nd, lz, IF lz = nd THEN 0 ELSE tz, x) :
                   lz \in {ZerosRun(s, first, id, 1, 1, nd)},
                   tz \in {ZerosRun(s, first, id, nd, 0 - 1, nd)},
                   x \in {e - fracLen + ZerosRun(s, first, id, nd, 0 - 1, nd)} } : TRUE

stod(s) ==
    CHOOSE r \in { Convert(s, HasSign(s, 1) /\ s[1] = "-",
                           IF HasSign(s, 1) THEN 2 ELSE 1, id, ie) :
                      id \in {IndexOf(s, {"."})}, ie \in {IndexOf(s, {"e", "E"})} } :
        TRUE

(***************************************************************************)
(* The symbol tables the constructor fills.                                *)
(***************************************************************************)

m_constants ==
    (<<"e">> :> Call("exp", IntVal(1)))
    @@ (<<"p", "i">> :> Times(Call("atan", IntVal(1)), IntVal(4)))

m_functions ==
    (<<"c", "o", "s">> :> "cos")
    @@ (<<"s", "i", "n">> :> "sin")
    @@ (<<"s", "q", "r", "t">> :> "sqrt")

(***************************************************************************)
(* State.                                                                  *)
(***************************************************************************)

VARIABLES
    m_src,              \* Calc::m_src, the source string
    m_currentPosition,  \* Calc::m_currentPosition
    stack,              \* the C++ call stack below Evaluate, innermost last
    results,            \* one record per invocation of Evaluate, in order
    evaluations,        \* invocations of Evaluate on the current Calc object
    glued,              \* offsets inside a token: between two characters that
                        \* GetConstant or GetSymbol gathered into one text
    parts,              \* the pieces m_src was put together from
    expect,             \* the outcome for the string before whitespace was
                        \* inserted into it, or NoValue
    inserted            \* whitespace characters inserted so far

vars == <<m_src, m_currentPosition, stack, results, evaluations, glued,
          parts, expect, inserted>>

\* Invocations of Evaluate in one behaviour.
MaxCalls == 2

\* Whitespace characters inserted into one accepted string.
MaxInsert == 1

NoValue == [k |-> "none"]

NewFrame(fn, pos) ==
    [fn |-> fn, pc |-> "begin", entry |-> pos, left |-> NoValue,
     sym |-> <<>>, ret |-> NoValue]

Top == stack[Len(stack)]

Running(fn, pc) == stack # <<>> /\ Top.fn = fn /\ Top.pc = pc

\* The stack after the running function moves to pc.
Goto(pc) == [stack EXCEPT ![Len(stack)].pc = pc]

\* The stack with the running function's frame replaced by f.
Keep(f) == [stack EXCEPT ![Len(stack)] = f]

\* The stack after the running function calls callee at offset pos, to
\* continue at pc when it returns.
Calling(pc, callee, pos) == Append(Goto(pc), NewFrame(callee, pos))

Finish(o) == [results EXCEPT ![Len(results)].outcome = o]

\* return v;  the value reaches the caller, or Evaluate's caller.
Return(v) ==
    IF Len(stack) = 1
    THEN /\ stack' = <<>>
         /\ results' = Finish([k |-> "value", v |-> v])
    ELSE /\ stack' = [SubSeq(stack, 1, Len(stack) - 1)
                         EXCEPT ![Len(stack) - 1].ret = v]
         /\ UNCHANGED results

\* A throw that reports the offset counted from one.
Throw_OneBased(text, arg) ==
    /\ stack' = <<>>
    /\ results' = Finish([k |-> "ParseError", message |-> <<text, arg>>,
                          position |-> m_currentPosition + 1])

\* A throw that reports the offset at which the running function began.
Throw_AtEntry(text, arg) ==
    /\ stack' = <<>>
    /\ results' = Finish([k |-> "ParseError", message |-> <<text, arg>>,
                          position |-> Top.entry])

\* throw ParseError(message, m_currentPosition);  nothing below Evaluate
\* catches it.
Throw(text, arg) ==
    /\ stack' = <<>>
    /\ results' = Finish([k |-> "ParseError", message |-> <<text, arg>>,
                          position |-> m_currentPosition])

Peek == PeekChar(m_src, m_currentPosition)

\* GetChar(), as a step.
GetChar == m_currentPosition' = GetCharPos(m_src, m_currentPosition)

\* Consume(c) and what follows it (after), or Consume's throw.
Consume(c, after) ==
    IF Peek # c
    THEN /\ Throw("Expected", <<c>>)
         /\ UNCHANGED m_currentPosition
    ELSE /\ GetChar
         /\ after

(***************************************************************************)
(* The constructor and Evaluate.                                           *)
(***************************************************************************)

\* A constructor that leaves the cursor where it was.
Calc_KeepsCursor ==
    /\ stack = <<>>
    /\ evaluations > 0
    /\ Len(results) < MaxCalls
    /\ evaluations' = 0
    /\ glued' = {}
    /\ UNCHANGED <<m_src, m_currentPosition, stack, results, parts, expect, inserted>>

\* Calc parser(src), over the string of the object before it.
Calc ==
    /\ stack = <<>>
    /\ evaluations > 0
    /\ Len(results) < MaxCalls
    /\ m_currentPosition' = 0
    /\ evaluations' = 0
    /\ glued' = {}
    /\ UNCHANGED <<m_src, stack, results, parts, expect, inserted>>

Evaluate ==
    /\ stack = <<>>
    /\ Len(results) < MaxCalls
    /\ stack' = <<NewFrame("ParseExpression", m_currentPosition)>>
    /\ results' = Append(results, [fresh   |-> evaluations = 0,
                                   start   |-> m_currentPosition,
                                   outcome |-> [k |-> "running"]])
    /\ evaluations' = evaluations + 1
    /\ UNCHANGED <<m_src, m_currentPosition, glued, parts, expect, inserted>>

ParseExpression ==
    /\ UNCHANGED <<m_src, m_currentPosition, evaluations, glued, parts, expect, inserted>>
    /\ \/ /\ Running("ParseExpression", "begin")
          /\ stack' = Calling("afterSum", "ParseSum", m_currentPosition)
          /\ UNCHANGED results
       \/ /\ Running("ParseExpression", "afterSum")
          /\ stack' = Calling("check", "SkipWhite", m_currentPosition)
          /\ UNCHANGED results
       \/ /\ Running("ParseExpression", "check")
          /\ IF Peek # NUL
             THEN Throw("Syntax error.", <<>>)
             ELSE Return(Top.ret)

\* A ParseSum that goes on to the next operator with v as its left operand.
SumResult_Loop(v) ==
    /\ stack' = Append(Keep([Top EXCEPT !.pc = "operator", !.left = v]),
                        NewFrame("SkipWhite", m_currentPosition))
    /\ UNCHANGED results

\* return left + right;  return left - right;  after one operator.
SumResult(v) == Return(v)

ParseSum ==
    /\ UNCHANGED <<m_src, evaluations, glued, parts, expect, inserted>>
    /\ \/ /\ Running("ParseSum", "begin")
          /\ stack' = Calling("afterLeft", "ParseProduct", m_currentPosition)
          /\ UNCHANGED <<m_currentPosition, results>>
       \/ /\ Running("ParseSum", "afterLeft")
          /\ stack' = Append(Keep([Top EXCEPT !.pc = "operator", !.left = Top.ret]),
                              NewFrame("SkipWhite", m_currentPosition))
          /\ UNCHANGED <<m_currentPosition, results>>
       \/ /\ Running("ParseSum", "operator")
          /\ Peek = "+"
          /\ GetChar
          /\ stack' = Calling("plus", "ParseProduct", m_currentPosition')
          /\ UNCHANGED results
       \/ /\ Running("ParseSum", "operator")
          /\ Peek = "-"
          /\ GetChar
          /\ stack' = Calling("minus", "ParseProduct", m_currentPosition')
          /\ UNCHANGED results
       \/ /\ Running("ParseSum", "operator")
          /\ Peek \notin {"+", "-"}
          /\ Return(Top.left)
          /\ UNCHANGED m_currentPosition
       \/ /\ Running("ParseSum", "plus")
          /\ SumResult(Plus(Top.left, Top.ret))
          /\ UNCHANGED m_currentPosition
       \/ /\ Running("ParseSum", "minus")
          /\ SumResult(Minus(Top.left, Top.ret))
          /\ UNCHANGED m_currentPosition

\* double right = ParseSum();  the production for the right operand of '*'
\* and '/'.
ProductRight_Term == "ParseTerm"

ProductRight == "ParseSum"

ParseProduct ==
    /\ UNCHANGED <<m_src, evaluations, glued, parts, expect, inserted>>
    /\ \/ /\ Running("ParseProduct", "begin")
          /\ stack' = Calling("afterLeft", "ParseTerm", m_currentPosition)
          /\ UNCHANGED <<m_currentPosition, results>>
       \/ /\ Running("ParseProduct", "afterLeft")
          /\ stack' = Append(Keep([Top EXCEPT !.pc = "operator", !.left = Top.ret]),
                              NewFrame("SkipWhite", m_currentPosition))
          /\ UNCHANGED <<m_currentPosition, results>>
       \/ /\ Running("ParseProduct", "operator")
          /\ Peek = "*"
          /\ GetChar
          /\ stack' = Calling("times", ProductRight, m_currentPosition')
          /\ UNCHANGED results
       \/ /\ Running("ParseProduct", "operator")
          /\ Peek = "/"
          /\ GetChar
          /\ stack' = Calling("divide", ProductRight, m_currentPosition')
          /\ UNCHANGED results
       \/ /\ Running("ParseProduct", "operator")
          /\ Peek \notin {"*", "/"}
          /\ Return(Top.left)
          /\ UNCHANGED m_currentPosition
       \/ /\ Running("ParseProduct", "times")
          /\ Return(Times(Top.left, Top.ret))
          /\ UNCHANGED m_currentPosition
       \/ /\ Running("ParseProduct", "divide")
          /\ Return(Divide(Top.left, Top.ret))
          /\ UNCHANGED m_currentPosition

ParseTerm ==
    /\ UNCHANGED <<m_src, evaluations, glued, parts, expect, inserted>>
    /\ \/ /\ Running("ParseTerm", "begin")
          /\ stack' = Calling("next", "SkipWhite", m_currentPosition)
          /\ UNCHANGED <<m_currentPosition, results>>
       \/ /\ Running("ParseTerm", "next")
          /\ Peek = "("
          /\ GetChar
          /\ stack' = Calling("afterSum", "ParseSum", m_currentPosition')
          /\ UNCHANGED results
       \/ /\ Running("ParseTerm", "next")
          /\ Peek # "("
          /\ IsFirstCharOfDouble(Peek)
          /\ stack' = Calling("return", "GetConstant", m_currentPosition)
          /\ UNCHANGED <<m_currentPosition, results>>
       \/ /\ Running("ParseTerm", "next")
          /\ Peek # "("
          /\ ~IsFirstCharOfDouble(Peek)
          /\ isalpha(Peek)
          /\ stack' = Calling("return", "ParseIdentifier", m_currentPosition)
          /\ UNCHANGED <<m_currentPosition, results>>
       \/ /\ Running("ParseTerm", "next")
          /\ Peek # "("
          /\ ~IsFirstCharOfDouble(Peek)
          /\ ~isalpha(Peek)
          /\ Throw("Expected a number, symbol or parenthesized expression.", <<>>)
          /\ UNCHANGED m_currentPosition
       \/ /\ Running("ParseTerm", "afterSum")
          /\ stack' = Append(Keep([Top EXCEPT !.pc = "close", !.left = Top.ret]),
                              NewFrame("SkipWhite", m_currentPosition))
          /\ UNCHANGED <<m_currentPosition, results>>
       \/ /\ Running("ParseTerm", "close")
          /\ Consume(")", Return(Top.left))
       \/ /\ Running("ParseTerm", "return")
          /\ Return(Top.ret)
          /\ UNCHANGED m_currentPosition

\* A test that takes the symbol for a call only if it names a function.
IsCall_KnownOnly == Peek = "(" /\ Top.sym \in DOMAIN m_functions

\* if (PeekChar() == '(')  after the symbol and the white space behind it.
IsCall == Peek = "("

ParseIdentifier ==
    /\ UNCHANGED <<m_src, evaluations, glued, parts, expect, inserted>>
    /\ \/ /\ Running("ParseIdentifier", "begin")
          /\ stack' = Calling("afterSymbol", "GetSymbol", m_currentPosition)
          /\ UNCHANGED <<m_currentPosition, results>>
       \/ /\ Running("ParseIdentifier", "afterSymbol")
          /\ stack' = Calling("lookup", "SkipWhite", m_currentPosition)
          /\ UNCHANGED <<m_currentPosition, results>>
       \/ /\ Running("ParseIdentifier", "lookup")
          /\ IsCall
          /\ Top.sym \in DOMAIN m_functions
          /\ Consume("(", stack' = Calling("afterParameter", "ParseSum",
                                           m_currentPosition'))
          /\ UNCHANGED results
       \/ /\ Running("ParseIdentifier", "lookup")
          /\ IsCall
          /\ Top.sym \notin DOMAIN m_functions
          /\ Throw("Unknown function", Top.sym)
          /\ UNCHANGED m_currentPosition
       \/ /\ Running("ParseIdentifier", "lookup")
          /\ ~IsCall
          /\ Top.sym \in DOMAIN m_constants
          /\ Return(m_constants[Top.sym])
          /\ UNCHANGED m_currentPosition
       \/ /\ Running("ParseIdentifier", "lookup")
          /\ ~IsCall
          /\ Top.sym \notin DOMAIN m_constants
          /\ Throw("Unknown symbol", Top.sym)
          /\ UNCHANGED m_currentPosition
       \/ /\ Running("ParseIdentifier", "afterParameter")
          /\ Consume(")", Return(Call(m_functions[Top.sym], Top.ret)))

\* s.push_back(GetChar()) in GetConstant, symbol.push_back(GetChar()) in
\* GetSymbol: the frame after it, staying at pc.
PushBack(pc) == [Top EXCEPT !.pc = pc, !.sym = Append(Top.sym, Peek)]

\* The offsets inside a token after the push_back.
Glue == IF Top.sym = <<>> THEN glued ELSE glued \cup {m_currentPosition}

GetConstant ==
    /\ UNCHANGED <<m_src, evaluations, parts, expect, inserted>>
    /\ \/ /\ Running("GetConstant", "begin")
          /\ stack' = Calling("sign", "SkipWhite", m_currentPosition)
          /\ UNCHANGED <<m_currentPosition, results, glued>>
       \/ /\ Running("GetConstant", "sign")
          /\ Peek \in {"+", "-"}
          /\ stack' = Keep(PushBack("mantissa"))
          /\ GetChar
          /\ glued' = Glue
          /\ UNCHANGED results
       \/ /\ Running("GetConstant", "sign")
          /\ Peek \notin {"+", "-"}
          /\ stack' = Goto("mantissa")
          /\ UNCHANGED <<m_currentPosition, results, glued>>
       \/ /\ Running("GetConstant", "mantissa")
          /\ isdigit(Peek)
          /\ stack' = Keep(PushBack("mantissa"))
          /\ GetChar
          /\ glued' = Glue
          /\ UNCHANGED results
       \/ /\ Running("GetConstant", "mantissa")
          /\ ~isdigit(Peek)
          /\ Peek = "."
          /\ stack' = Keep(PushBack("fraction"))
          /\ GetChar
          /\ glued' = Glue
          /\ UNCHANGED results
       \/ /\ Running("GetConstant", "fraction")
          /\ isdigit(Peek)
          /\ stack' = Keep(PushBack("fraction"))
          /\ GetChar
          /\ glued' = Glue
          /\ UNCHANGED results
       \/ /\ \/ Running("GetConstant", "mantissa") /\ ~isdigit(Peek) /\ Peek # "."
             \/ Running("GetConstant", "fraction") /\ ~isdigit(Peek)
          /\ Peek \in {"e", "E"}
          /\ stack' = Keep(PushBack("exponentSign"))
          /\ GetChar
          /\ glued' = Glue
          /\ UNCHANGED results
       \/ /\ \/ Running("GetConstant", "mantissa") /\ ~isdigit(Peek) /\ Peek # "."
             \/ Running("GetConstant", "fraction") /\ ~isdigit(Peek)
          /\ Peek \notin {"e", "E"}
          /\ stack' = Goto("stod")
          /\ UNCHANGED <<m_currentPosition, results, glued>>
       \/ /\ Running("GetConstant", "exponentSign")
          /\ Peek \in {"+", "-"}
          /\ stack' = Keep(PushBack("exponent"))
          /\ GetChar
          /\ glued' = Glue
          /\ UNCHANGED results
       \/ /\ Running("GetConstant", "exponentSign")
          /\ Peek \notin {"+", "-"}
          /\ stack' = Goto("exponent")
          /\ UNCHANGED <<m_currentPosition, results, glued>>
       \/ /\ Running("GetConstant", "exponent")
          /\ ~isdigit(Peek)
          /\ Throw("Expected exponent in floating point constant.", <<>>)
          /\ UNCHANGED <<m_currentPosition, glued>>
       \/ /\ \/ Running("GetConstant", "exponent")
             \/ Running("GetConstant", "exponentDigits")
          /\ isdigit(Peek)
          /\ stack' = Keep(PushBack("exponentDigits"))
          /\ GetChar
          /\ glued' = Glue
          /\ UNCHANGED results
       \/ /\ Running("GetConstant", "exponentDigits")
          /\ ~isdigit(Peek)
          /\ stack' = Goto("stod")
          /\ UNCHANGED <<m_currentPosition, results, glued>>
       \/ /\ Running("GetConstant", "stod")
          /\ \E r \in {stod(Top.sym)} :
                \/ /\ r.k = "value"
                   /\ Return(r.v)
                \/ /\ r.k = "invalid_argument"
                   /\ Throw("Invalid float.", <<>>)
                \/ /\ r.k = "out_of_range"
                   \* no handler for std::out_of_range: it leaves Evaluate as it is
                   /\ stack' = <<>>
                   /\ results' = Finish([k |-> "out_of_range"])
          /\ UNCHANGED <<m_currentPosition, glued>>

GetSymbol ==
    /\ UNCHANGED <<m_src, evaluations, parts, expect, inserted>>
    /\ \/ /\ Running("GetSymbol", "begin")
          /\ stack' = Calling("first", "SkipWhite", m_currentPosition)
          /\ UNCHANGED <<m_currentPosition, results, glued>>
       \/ /\ Running("GetSymbol", "first")
          /\ IF ~isalpha(Peek)
             THEN Throw("Expected alpha character at beginning of symbol.", <<>>)
             ELSE stack' = Goto("loop") /\ UNCHANGED results
          /\ UNCHANGED <<m_currentPosition, glued>>
       \/ /\ Running("GetSymbol", "loop")
          /\ isalnum(Peek)
          /\ stack' = Keep(PushBack("loop"))
          /\ GetChar
          /\ glued' = Glue
          /\ UNCHANGED results
       \/ /\ Running("GetSymbol", "loop")
          /\ ~isalnum(Peek)
          \* return symbol;  ParseIdentifier is the only caller
          /\ stack' = [SubSeq(stack, 1, Len(stack) - 1)
                          EXCEPT ![Len(stack) - 1].sym = Top.sym]
          /\ UNCHANGED <<m_currentPosition, results, glued>>

SkipWhite ==
    /\ UNCHANGED <<m_src, results, evaluations, glued, parts, expect, inserted>>
    /\ \/ /\ Running("SkipWhite", "begin")
          /\ isspace(Peek)
          /\ GetChar
          /\ UNCHANGED stack
       \/ /\ Running("SkipWhite", "begin")
          /\ ~isspace(Peek)
          /\ stack' = SubSeq(stack, 1, Len(stack) - 1)
          /\ UNCHANGED m_currentPosition

\* One step of the code below Evaluate.
Step ==
    \/ ParseExpression
    \/ ParseSum
    \/ ParseProduct
    \/ ParseTerm
    \/ ParseIdentifier
    \/ GetConstant
    \/ GetSymbol
    \/ SkipWhite

(***************************************************************************)
(* Inputs.                                                                 *)
(***************************************************************************)

\* The inputs of Test()'s cases.
TestCases ==
    {<<"1">>,
     <<"1", ".", "2", "3", "4">>,
     <<".", "1">>,
     <<"-", "2">>,
     <<"-", ".", "1">>,
     <<"1", "e", "9">>,
     <<"2", "e", "-", "8">>,
     <<"3", "e", "+", "7">>,
     <<"4", "5", "6", ".", "7", "8", "9", "e", "+", "5">>,
     <<"e">>,
     <<"p", "i">>,
     <<"1", "+", "2">>,
     <<"3", "+", "e">>,
     <<"4", "-", "5">>,
     <<"2", "*", "3">>,
     <<"(", "3", "+", "4", ")">>,
     <<"(", "3", "+", "4", ")", "*", "(", "2", "+", "3", ")">>,
     <<"1", "+", "-", "2">>,
     <<"\t", " ", "1", " ", " ", "+", " ", "(", " ", "2", " ", "*", " ", "1", "0", " ", ")", " ", " ", " ", " ">>,
     <<"s", "q", "r", "t", "(", "4", ")">>,
     <<"s", "q", "r", "t", "(", "(", "3", "+", "4", ")", "*", "(", "2", "+", "3", ")", ")">>,
     <<"s", "q", "r", "t", "(", "1", " ", "+", " ", "2", " ", ")">>,
     <<"c", "o", "s", "(", "p", "i", ")">>,
     <<"s", "i", "n", "(", "0", ")">>}

\* Inputs that reach the throws, and the remaining operators.
OtherCases ==
    {<<>>,
     <<"1", "+", "2", "+", "3">>,
     <<"2", "*", "3", "+", "4">>,
     <<"f", "o", "o", "(", "1", ")">>,
     <<"b", "a", "r">>,
     <<"p", "i", "(", "1", ")">>,
     <<"s", "i", "n">>,
     <<"1", "e">>,
     <<"1", "e", "9", "9", "9">>,
     <<"1", "e", "-", "9", "9", "9">>,
     <<"-">>,
     <<"+">>,
     <<".">>,
     <<"-", ".">>,
     <<"-", "e", "5">>,
     <<"(", "1">>,
     <<"s", "q", "r", "t", "(", "4">>,
     <<"1", " ", "2">>,
     <<"6", "/", "3">>,
     <<"1", "/", "0">>}

\* Pieces of source text: literals, operators, parentheses, white space, a
\* named constant, a named function and a name in neither table.
Vocabulary ==
    {<<"1">>, <<"2", "0">>, <<"9", "9", "9">>, <<"+">>, <<"-">>, <<"*">>,
     <<"/">>, <<"(">>, <<")">>, <<".">>, <<"e">>, <<" ">>, <<"p", "i">>,
     <<"s", "i", "n">>, <<"x">>}

\* Pieces in one source string.
MaxPieces == 3

\* The sequences of at most n pieces.
RECURSIVE PieceSeqs(_)
PieceSeqs(n) ==
    IF n = 0 THEN {<<>>}
    ELSE LET shorter == PieceSeqs(n - 1)
         IN  shorter \cup {Append(s, t) : s \in shorter, t \in Vocabulary}

RECURSIVE Flatten(_)
Flatten(ps) == IF ps = <<>> THEN <<>> ELSE Head(ps) \o Flatten(Tail(ps))

Cases == {<<s>> : s \in TestCases \cup OtherCases}

\* Operands and operators of the expressions  a op b op c  and
\* a op b op c op d,  and the white space between their tokens.
Operands == {<<"2">>, <<"1", "0">>, <<"p", "i">>, <<"e">>,
             <<"(", "1", "+", "2", ")">>}

DigitOperands == {<<"2">>, <<"3">>}

Operators == {<<"+">>, <<"-">>, <<"*">>, <<"/">>}

Gaps == {<<>>, <<" ">>}

\* a op b op c, with the same white space before each operator and the same
\* after each.
Chains3 ==
    {<<a, g, o1, h, b, g, o2, h, c>> :
        a \in Operands, b \in Operands, c \in Operands,
        o1 \in Operators, o2 \in Operators, g \in Gaps, h \in Gaps}

\* a op b op c op d  over digit-only literals, without white space.
Chains4 ==
    {<<a, o1, b, o2, c, o3, d>> :
        a \in DigitOperands, b \in DigitOperands, c \in DigitOperands,
        d \in DigitOperands,
        o1 \in Operators, o2 \in Operators, o3 \in Operators}

\* The state after  Calc parser(Flatten(ps)).
Constructed(ps) ==
    /\ parts = ps
    /\ m_src = Flatten(ps)
    /\ m_currentPosition = 0
    /\ stack = <<>>
    /\ results = <<>>
    /\ evaluations = 0
    /\ glued = {}
    /\ expect = NoValue
    /\ inserted = 0

Init == \E ps \in Cases \cup PieceSeqs(MaxPieces) : Constructed(ps)

InitChain == \E ps \in Cases \cup Chains3 \cup Chains4 : Constructed(ps)

InitCases == \E ps \in Cases : Constructed(ps)

\* The white space of the claim on white space tolerance.
White == {" ", "\t", "\r", "\n"}

\* A Calc over the accepted string with one white space character inserted
\* outside its tokens.
Respace ==
    /\ stack = <<>>
    /\ results # <<>>
    /\ results[Len(results)].outcome.k = "value"
    /\ inserted < MaxInsert
    /\ \E p \in (0..Len(m_src)) \ glued, w \in White :
          m_src' = SubSeq(m_src, 1, p) \o <<w>> \o SubSeq(m_src, p + 1, Len(m_src))
    /\ parts' = <<m_src'>>
    /\ expect' = IF expect = NoValue THEN results[Len(results)].outcome ELSE expect
    /\ inserted' = inserted + 1
    /\ m_currentPosition' = 0
    /\ results' = <<>>
    /\ evaluations' = 0
    /\ glued' = {}
    /\ UNCHANGED stack

\* Test() and main(): one Evaluate on each Calc they construct.
Next ==
    \/ results = <<>> /\ Evaluate
    \/ Step

\* Callers that invoke Evaluate again, on the same Calc or on a new one.
NextReuse ==
    \/ Evaluate
    \/ Calc
    \/ Step

NextWhite ==
    \/ results = <<>> /\ Evaluate
    \/ Respace
    \/ Step

Spec == Init /\ [][Next]_vars

SpecChain == InitChain /\ [][Next]_vars

SpecReuse == InitCases /\ [][NextReuse]_vars

SpecWhite == InitCases /\ [][NextWhite]_vars

\* main() before it has read a line.
InitMain == Constructed(<<>>)

\* main(): Calc parser(line) for the line read.
ReadLine ==
    /\ parts = <<>>
    /\ results = <<>>
    /\ \E ps \in (Cases \cup PieceSeqs(MaxPieces)) \ {<<>>} :
          /\ parts' = ps
          /\ m_src' = Flatten(ps)
    /\ UNCHANGED <<m_currentPosition, stack, results, evaluations, glued,
                   expect, inserted>>

NextMain ==
    \/ ReadLine
    \/ results = <<>> /\ Evaluate
    \/ Step

\* The code is sequential: a call of Evaluate that can take a step takes it.
FairSpec == InitMain /\ [][NextMain]_vars /\ WF_vars(Step)

(***************************************************************************)
(* The claims.                                                             *)
(***************************************************************************)

\* The outcome of the latest invocation of Evaluate.
Last == results[Len(results)].outcome

\* An invocation of Evaluate has ended and none is running.
Done == stack = <<>> /\ results # <<>>

Value(v) == [k |-> "value", v |-> v]

ParseErrorAt(text, arg, pos) ==
    [k |-> "ParseError", message |-> <<text, arg>>, position |-> pos]

DigitOnly(p) == p # <<>> /\ \A i \in 1..Len(p) : isdigit(p[i])

Additive == {<<"+">>, <<"-">>}

\* m_src is  a op1 b op2 c  with the operators o1 and o2
Form3(o1, o2) ==
    /\ Len(parts) = 9
    /\ parts[3] = <<o1>>
    /\ parts[7] = <<o2>>

\* m_src is  a op1 b op2 c op3 d  with the operators o1, o2 and o3
Form4(o1, o2, o3) ==
    /\ Len(parts) = 7
    /\ parts[2] = <<o1>>
    /\ parts[4] = <<o2>>
    /\ parts[6] = <<o3>>

\* The operands of Form3 and Form4 are digit-only literals.
Digits3 == DigitOnly(parts[1]) /\ DigitOnly(parts[5]) /\ DigitOnly(parts[9])

Digits4 ==
    DigitOnly(parts[1]) /\ DigitOnly(parts[3]) /\ DigitOnly(parts[5])
    /\ DigitOnly(parts[7])

C3_ValueOrParseError == Done => Last.k \in {"value", "ParseError"}

Returns ==
    /\ Len(stack) >= 2
    /\ Top.fn \in {"ParseTerm", "ParseProduct", "ParseSum"}
    /\ Len(stack') = Len(stack) - 1

\* A step stays in the loop it is in: SkipWhite's, a digit run's, the symbol's.
Iterates ==
    /\ stack # <<>>
    /\ Len(stack') = Len(stack)
    /\ stack'[Len(stack)].fn = Top.fn
    /\ stack'[Len(stack)].pc = Top.pc

\* A production that is active twice began the second time further on.
NoEmptyRecursion ==
    \A i, j \in 1..Len(stack) :
        (i < j /\ stack[i].fn = stack[j].fn) => stack[i].entry < stack[j].entry

\* C5: every invocation of Evaluate ends; a return from ParseTerm, ParseProduct
\* or ParseSum has moved the cursor forward from where the production began,
\* every iteration of a loop moves the cursor by one, and no production is
\* entered again at the offset at which it is already active.
C5_Terminates ==
    /\ (stack # <<>>) ~> (stack = <<>>)
    /\ [][(Returns => m_currentPosition' > Top.entry)
          /\ (Iterates => m_currentPosition' = m_currentPosition + 1)]_vars
    /\ []NoEmptyRecursion

\* "sqrt((3+4)*(2+3))", the longest of Test()'s nested cases, has been
\* evaluated.
C5_Witness ==
    /\ Done
    /\ Last.k = "value"
    /\ Len(m_src) >= 17
    /\ m_src[1] = "s"

\* The cursor and the offsets the errors carry are within the text.
CursorInBounds ==
    /\ m_currentPosition \in 0..Len(m_src)
    /\ \A i \in 1..Len(results) :
          results[i].outcome.k = "ParseError"
          => results[i].outcome.position \in 0..Len(m_src)

\* C6: 0 <= m_currentPosition <= length of the text in every state, the cursor
\* moves only by one and only when it is not at the end of the text, and every
\* ParseError carries an offset in 0..length.
C6_CursorBounds ==
    /\ []CursorInBounds
    /\ [][m_currentPosition' # m_currentPosition
          => (/\ m_currentPosition < Len(m_src)
              /\ m_currentPosition' = m_currentPosition + 1)]_vars

\* An error has been reported at the end of a text that is not empty.
C6_Witness ==
    /\ Done
    /\ Last.k = "ParseError"
    /\ Len(m_src) > 0
    /\ Last.position = Len(m_src)

\* GetConstant is about to convert text with no digit in its mantissa.
InvalidFloat ==
    /\ Running("GetConstant", "stod")
    /\ stod(Top.sym).k = "invalid_argument"

\* C7, as stated: the "Invalid float." error carries the offset at which the
\* literal starts.
C7_InvalidFloatAtStart ==
    [][InvalidFloat
       => results'[Len(results')].outcome
             = ParseErrorAt("Invalid float.", <<>>, Top.entry)]_vars

\* C7, amended: the "Invalid float." error carries the offset of the cursor
\* after the characters of the literal: its start plus the length of the text
\* gathered.
C7_InvalidFloatAtCursor ==
    [][InvalidFloat
       => results'[Len(results')].outcome
             = ParseErrorAt("Invalid float.", <<>>, Top.entry + Len(Top.sym))]_vars

\* "-e5" has been rejected at offset 3.
C7_Witness ==
    /\ Done
    /\ m_src = <<"-", "e", "5">>
    /\ Last = ParseErrorAt("Invalid float.", <<>>, 3)

\* C8: with '(' as the next character after the symbol and the white space
\* behind it, the symbol is looked up among the functions only, and a name
\* that is not there fails with "Unknown function" before anything of the
\* argument is read; with any other next character it is looked up among the
\* constants only, and a name that is not there fails with "Unknown symbol".
C8_IdentifierResolution ==
    [][Running("ParseIdentifier", "lookup")
       => IF PeekChar(m_src, m_currentPosition) = "("
          THEN IF Top.sym \in DOMAIN m_functions
               THEN /\ stack' # <<>>
                    /\ stack'[Len(stack')].fn = "ParseSum"
                    /\ m_currentPosition' = m_currentPosition + 1
               ELSE /\ stack' = <<>>
                    /\ m_currentPosition' = m_currentPosition
                    /\ results'[Len(results')].outcome
                          = ParseErrorAt("Unknown function", Top.sym,
                                         m_currentPosition)
          ELSE IF Top.sym \in DOMAIN m_constants
               THEN /\ Len(stack') = Len(stack) - 1
                    /\ stack'[Len(stack')].ret = m_constants[Top.sym]
               ELSE /\ stack' = <<>>
                    /\ results'[Len(results')].outcome
                          = ParseErrorAt("Unknown symbol", Top.sym,
                                         m_currentPosition)]_vars

\* "pi(1)" has been rejected: pi is a constant, and no function.
C8_Witness ==
    /\ Done
    /\ m_src = <<"p", "i", "(", "1", ")">>
    /\ Last = ParseErrorAt("Unknown function", <<"p", "i">>, 2)

\* C9: an accepted string with white space inserted before, after or between
\* its tokens is accepted with the same value.
C9_WhiteSpaceTolerance == (Done /\ expect # NoValue) => Last = expect

\* A function has been applied with white space between its name and its '('.
C9_Witness ==
    /\ Done
    /\ expect # NoValue
    /\ Last.k = "value"
    /\ \E i \in 2..(Len(m_src) - 1) :
          isalpha(m_src[i - 1]) /\ m_src[i] \in White /\ m_src[i + 1] = "("

\* l o r, as ParseSum and ParseProduct compute it
Apply(o, l, r) ==
    CASE o = <<"+">> -> Plus(l, r)
      [] o = <<"-">> -> Minus(l, r)
      [] o = <<"*">> -> Times(l, r)
      [] o = <<"/">> -> Divide(l, r)

=============================================================================
